---- MODULE Spec2Model ----
(***************************************************************************)
(* Cell handlers of alpha_solve_analytical: the probes (meta functions),   *)
(* the execute functions simple_simplify, check_equal, solve_ode and       *)
(* solve_simple, and the host's probe/select/execute cycle over a Context  *)
(* that is threaded from one cell to the next.                             *)
(*                                                                         *)
(* The symbolic engine (sympy) is outside the repository.  It is           *)
(* represented on a fragment of polynomials without cross terms,           *)
(*     k + SUM_n co[n]*n + SUM_n sq[n]*n^2     (integer coefficients),     *)
(* on which parsing, substitution, simplification and solving are          *)
(* computed exactly.  A string (a Context value, str(e), to_latex(e)) is   *)
(* the sequence of the coefficients; any other sequence does not parse.    *)
(***************************************************************************)
EXTENDS Integers, Sequences, FiniteSets, TLC

VARIABLES ctx, cells, last

vars == <<ctx, cells, last>>

(* ------------------------------------------------------------------ *)
(* Bounds of the model                                                 *)
(* ------------------------------------------------------------------ *)

\* Number of cells the host evaluates in one session.
MaxCells == 2

(* ------------------------------------------------------------------ *)
(* Names, polynomials, strings                                         *)
(* ------------------------------------------------------------------ *)

\* The symbol names, in the order sorted(..., key=str) gives them.
NameOrder == <<"a", "x", "y">>

Names == {NameOrder[i] : i \in DOMAIN NameOrder}

NameRank(n) == CHOOSE i \in DOMAIN NameOrder : NameOrder[i] = n

\* sorted(S, key=str) for a set of names.
SortedNames(S) ==
    LET idx == {NameRank(n) : n \in S}
        F[i \in 0..Len(NameOrder)] ==
            IF i = 0 THEN <<>>
            ELSE IF i \in idx THEN Append(F[i - 1], NameOrder[i]) ELSE F[i - 1]
    IN F[Len(NameOrder)]

ZeroCo == [n \in Names |-> 0]

Poly(k, co, sq) == [k |-> k, co |-> co, sq |-> sq]

Const(k) == Poly(k, ZeroCo, ZeroCo)

\* c * n  and  c * n^2
Lin(c, n) == Poly(0, [ZeroCo EXCEPT ![n] = c], ZeroCo)
Sqr(c, n) == Poly(0, ZeroCo, [ZeroCo EXCEPT ![n] = c])

PAdd(p, q) ==
    Poly(p.k + q.k, [n \in Names |-> p.co[n] + q.co[n]],
         [n \in Names |-> p.sq[n] + q.sq[n]])

PScale(c, p) ==
    Poly(c * p.k, [n \in Names |-> c * p.co[n]], [n \in Names |-> c * p.sq[n]])

PSub(p, q) == PAdd(p, PScale(-1, q))

PFree(p) == {n \in Names : p.co[n] # 0 \/ p.sq[n] # 0}

IsConst(p) == PFree(p) = {}

\* str(e): the canonical string of an engine expression.
Str(p) ==
    <<p.k>> \o [i \in 1..Len(NameOrder) |-> p.co[NameOrder[i]]]
            \o [i \in 1..Len(NameOrder) |-> p.sq[NameOrder[i]]]

StrLen == 1 + 2 * Len(NameOrder)

\* A value string that sympify rejects.
BadStr == <<>>

\* sympify(s): parse a value string; raises on a string that is no expression.
Sympify(s) ==
    IF Len(s) # StrLen THEN [raised |-> TRUE, val |-> Const(0)]
    ELSE [raised |-> FALSE,
          val |-> Poly(s[1],
                       [n \in Names |-> s[1 + NameRank(n)]],
                       [n \in Names |-> s[1 + Len(NameOrder) + NameRank(n)]])]

(* ------------------------------------------------------------------ *)
(* The symbolic engine                                                 *)
(* ------------------------------------------------------------------ *)

\* An expression: kind "expr" is the polynomial lhs; kind "eq" is
\* Eq(lhs, rhs); kind "ode" is Eq(Derivative(fn, iv), rhs).
Expr(kind, lhs, rhs, fn, iv) ==
    [kind |-> kind, lhs |-> lhs, rhs |-> rhs, fn |-> fn, iv |-> iv]

Plain(p) == Expr("expr", p, Const(0), "", "")
Equation(l, r) == Expr("eq", l, r, "", "")
Ode(fn, iv, r) == Expr("ode", Const(0), r, fn, iv)

\* expr.free_symbols.  The free symbols of Derivative(fn, iv) are those of
\* the differentiated expression, the symbol fn.
FreeSymbols(e) ==
    CASE e.kind = "expr" -> PFree(e.lhs)
      [] e.kind = "eq"   -> PFree(e.lhs) \cup PFree(e.rhs)
      [] e.kind = "ode"  -> {e.fn} \cup PFree(e.rhs)

\* expr.atoms(Derivative) is non-empty
HasDerivative(e) == e.kind = "ode"

\* isinstance(expr, Equality)
IsEquality(e) == e.kind \in {"eq", "ode"}

\* The element of a one-element set.  The({b : x \in {e}}) is b with x
\* bound to the value of e.
The(S) == CHOOSE x \in S : TRUE

Ok(v) == [raised |-> FALSE, val |-> v]
Raise(v) == [raised |-> TRUE, val |-> v]

\* v * v, inside the fragment when v has at most one symbol and no square.
PSquare(v) ==
    IF v.sq # ZeroCo \/ Cardinality(PFree(v)) > 1 THEN Raise(Const(0))
    ELSE Ok(Poly(v.k * v.k, [n \in Names |-> 2 * v.k * v.co[n]],
                 [n \in Names |-> v.co[n] * v.co[n]]))

\* p.subs(n, v)
PSubs1(p, n, v) ==
    LET base == Poly(p.k, [p.co EXCEPT ![n] = 0], [p.sq EXCEPT ![n] = 0])
        lin  == PAdd(base, PScale(p.co[n], v))
        v2   == PSquare(v)
    IN IF p.sq[n] = 0 THEN Ok(lin)
       ELSE IF v2.raised THEN Raise(Const(0))
       ELSE Ok(PAdd(lin, PScale(p.sq[n], v2.val)))

\* p.subs(dict): the replacements are applied one after the other, symbols
\* in sorted order.  syms and vals are parallel sequences.
PSubs(p, syms, vals) ==
    LET F[i \in 0..Len(NameOrder)] ==
            IF i = 0 THEN Ok(p)
            ELSE The({ LET n == NameOrder[i]
                           at == {j \in DOMAIN syms : syms[j] = n}
                       IN IF at = {} \/ prev.raised THEN prev
                          ELSE The({ PSubs1(prev.val, n, v) :
                                     v \in {vals[CHOOSE j \in at :
                                                   \A j2 \in at : j2 <= j]} })
                       : prev \in {F[i - 1]} })
    IN F[Len(NameOrder)]

\* expr.subs(dict) on a whole expression.  In an ODE the keys are free
\* symbols of the equation in which fn stands for fn(iv), so fn is never a
\* key; replacing the independent variable leaves a derivative at a point,
\* which the engine cannot solve for fn(iv) (recorded in iv = "").
ExprSubs(e, syms, vals) ==
    LET ivGone == e.kind = "ode" /\ \E j \in DOMAIN syms : syms[j] = e.iv
    IN The({ IF l.raised \/ r.raised THEN Raise(e)
             ELSE Ok(Expr(e.kind, l.val, r.val, e.fn,
                          IF ivGone THEN "" ELSE e.iv))
             : l \in {PSubs(e.lhs, syms, vals)},
               r \in {PSubs(e.rhs, syms, vals)} })

Abs(i) == IF i < 0 THEN -i ELSE i

Divides(a, i) == a # 0 /\ Abs(i) % Abs(a) = 0

ExactDiv(i, a) == IF a > 0 THEN (IF i >= 0 THEN i \div a ELSE -((-i) \div a))
                  ELSE (IF i >= 0 THEN -(i \div (-a)) ELSE (-i) \div (-a))

PDivides(a, p) ==
    /\ Divides(a, p.k)
    /\ \A n \in Names : Divides(a, p.co[n]) /\ Divides(a, p.sq[n])

PExactDiv(p, a) ==
    Poly(ExactDiv(p.k, a), [n \in Names |-> ExactDiv(p.co[n], a)],
         [n \in Names |-> ExactDiv(p.sq[n], a)])

IsSquare(q) == q >= 0 /\ \E r \in 0..q : r * r = q

Root(q) == CHOOSE r \in 0..q : r * r = q

\* solve(equation, var) for an equation of kind "eq": the list of solutions;
\* raises where the engine has no closed form in the fragment.
EngineSolve(e, var) ==
    The({ LET a2   == d.sq[var]
              a1   == d.co[var]
              rest == Poly(d.k, [d.co EXCEPT ![var] = 0],
                           [d.sq EXCEPT ![var] = 0])
              q    == ExactDiv(-d.k, a2)
          IN CASE a2 = 0 /\ a1 = 0 -> Ok(<<>>)
               [] a2 = 0 /\ a1 # 0 ->
                      IF PDivides(a1, rest)
                      THEN Ok(<<PExactDiv(PScale(-1, rest), a1)>>)
                      ELSE Raise(<<>>)
               [] a2 # 0 ->
                      IF a1 = 0 /\ IsConst(rest) /\ Divides(a2, d.k) /\ IsSquare(q)
                      THEN (IF q = 0 THEN Ok(<<Const(0)>>)
                            ELSE Ok(<<Const(-Root(q)), Const(Root(q))>>))
                      ELSE Raise(<<>>)
          : d \in {PSub(e.lhs, e.rhs)} })

\* dsolve(equation, func): one solution, identified by the right-hand side
\* of the equation solved.  The equations the engine gives up on are
\* represented by those not linear in fn and those whose independent
\* variable has been replaced.
EngineDsolve(e) ==
    IF e.kind # "ode" \/ e.iv = "" \/ e.rhs.sq[e.fn] # 0 THEN Raise(<<>>)
    ELSE Ok(<<e.rhs>>)

\* simplify(a - b) == 0
EngineEqual(p, q) == PSub(p, q) = Const(0)

(* ------------------------------------------------------------------ *)
(* Cells, Context, results                                             *)
(* ------------------------------------------------------------------ *)

\* A cell: latex is "missing" (the cell has no 'latex' entry), "blank"
\* (white space only), "bad" (text that does not parse) or "text" (text that
\* parses to expr); eqsign says whether the raw text contains '='.
Cell(latex, eqsign, expr) == [latex |-> latex, eqsign |-> eqsign, expr |-> expr]

CellMissing == Cell("missing", FALSE, Plain(Const(0)))
CellBlank   == Cell("blank", FALSE, Plain(Const(0)))
CellBad     == Cell("bad", FALSE, Plain(Const(0)))
\* x + a
CellExprXA  == Cell("text", FALSE, Plain(PAdd(Lin(1, "x"), Lin(1, "a"))))
\* x^2
CellExprSq  == Cell("text", FALSE, Plain(Sqr(1, "x")))
\* 3
CellConst   == Cell("text", FALSE, Plain(Const(3)))
\* x + y = 6
CellXplusY  == Cell("text", TRUE, Equation(PAdd(Lin(1, "x"), Lin(1, "y")), Const(6)))
\* x^2 = 4
CellSquare  == Cell("text", TRUE, Equation(Sqr(1, "x"), Const(4)))
\* x = y
CellXeqY    == Cell("text", TRUE, Equation(Lin(1, "x"), Lin(1, "y")))
\* 2 = 2
CellTrue    == Cell("text", TRUE, Equation(Const(2), Const(2)))
\* 2x = 2y
CellTwice   == Cell("text", TRUE, Equation(Lin(2, "x"), Lin(2, "y")))
\* dy/dx = y + a^2
CellOdeLin  == Cell("text", TRUE, Ode("y", "x", PAdd(Lin(1, "y"), Sqr(1, "a"))))
\* dy/dx = y^2 + a
CellOdeSq   == Cell("text", TRUE, Ode("y", "x", PAdd(Sqr(1, "y"), Lin(1, "a"))))

AlgebraCells ==
    {CellMissing, CellBlank, CellBad, CellExprXA, CellExprSq, CellConst,
     CellXplusY, CellSquare, CellXeqY, CellTrue, CellTwice}

Cells == AlgebraCells \cup {CellOdeLin, CellOdeSq}

\* input_data.cell.get('latex', '').strip(): "" for a missing or blank entry.
StrippedLatex(cell) ==
    IF cell.latex \in {"missing", "blank"}
    THEN [text |-> "", eqsign |-> FALSE, expr |-> cell.expr]
    ELSE [text |-> cell.latex, eqsign |-> cell.eqsign, expr |-> cell.expr]

\* from_latex(latex): raises on text that does not parse (the empty text
\* included).
from_latex(latex) ==
    IF latex.text = "text" THEN Ok(latex.expr) ELSE Raise(latex.expr)

\* Variable(name, values)
Variable(name, values) == [name |-> name, values |-> values]

\* {v.name for v in input_data.context.variables}
ContextVarNames(context) == {context[i].name : i \in DOMAIN context}

\* One line of visible_solutions: kind names the message or the rendering,
\* var and text its parameters.
Line(kind, var, text) == [kind |-> kind, var |-> var, text |-> text]

\* UI selections: a sequence of (title, item) the host passes back.
Selection(title, item) == [title |-> title, item |-> item]

\* input_data.get_dropdown_selection(title): the item chosen for the dropdown
\* of that title, "" when there is none.
get_dropdown_selection(sels, title) ==
    LET at == {i \in DOMAIN sels : sels[i].title = title}
    IN IF at = {} THEN ""
       ELSE sels[CHOOSE i \in at : \A j \in at : i <= j].item

(* ------------------------------------------------------------------ *)
(* Probes (meta functions)                                             *)
(* ------------------------------------------------------------------ *)

\* MetaFunctionResult(index, name, use_result, dropdowns); raised is TRUE
\* when the probe ends in an exception instead of a result.
MetaFunctionResult(index, name, use_result, dropdowns) ==
    [index |-> index, name |-> name, use_result |-> use_result,
     dropdowns |-> dropdowns, raised |-> FALSE]

Dropdown(title, items) == [title |-> title, items |-> items]

meta_check_equal(cell, context) ==
    LET latex == StrippedLatex(cell)
        parsed == from_latex(latex)
    IN IF latex.text = ""
       THEN MetaFunctionResult(25, "Check Equality", FALSE, <<>>)
       ELSE IF parsed.raised
       THEN MetaFunctionResult(25, "Check Equality", FALSE, <<>>)
       ELSE IF ~IsEquality(parsed.val)
       THEN MetaFunctionResult(25, "Check Equality", FALSE, <<>>)
       ELSE IF ~(\A symbol \in FreeSymbols(parsed.val) :
                    symbol \in ContextVarNames(context))
       THEN MetaFunctionResult(25, "Check Equality", FALSE, <<>>)
       ELSE MetaFunctionResult(25, "Check Equality", TRUE, <<>>)

meta_simple_simplify(cell, context) ==
    LET latex == StrippedLatex(cell)
        parsed == from_latex(latex)
    IN IF latex.text = ""
       THEN MetaFunctionResult(50, "Simplify", FALSE, <<>>)
       ELSE IF parsed.raised
       THEN MetaFunctionResult(50, "Simplify", FALSE, <<>>)
       ELSE IF IsEquality(parsed.val)
       THEN MetaFunctionResult(50, "Simplify", FALSE, <<>>)
       ELSE IF latex.eqsign
       THEN MetaFunctionResult(50, "Simplify", FALSE, <<>>)
       ELSE MetaFunctionResult(50, "Simplify", TRUE, <<>>)

\* The probe with its priority index moved behind the simple solver's.
meta_solve_ode_late(cell, context) ==
    LET latex == StrippedLatex(cell)
        parsed == from_latex(latex)
    IN MetaFunctionResult(105, "ODE Solver",
           /\ latex.text # ""
           /\ ~parsed.raised
           /\ IsEquality(parsed.val)
           /\ HasDerivative(parsed.val),
           <<>>)

meta_solve_ode(cell, context) ==
    LET latex == StrippedLatex(cell)
        parsed == from_latex(latex)
    IN IF latex.text = ""
       THEN MetaFunctionResult(90, "ODE Solver", FALSE, <<>>)
       ELSE IF parsed.raised
       THEN MetaFunctionResult(90, "ODE Solver", FALSE, <<>>)
       ELSE IF ~IsEquality(parsed.val)
       THEN MetaFunctionResult(90, "ODE Solver", FALSE, <<>>)
       ELSE IF ~HasDerivative(parsed.val)
       THEN MetaFunctionResult(90, "ODE Solver", FALSE, <<>>)
       ELSE MetaFunctionResult(90, "ODE Solver", TRUE, <<>>)

\* The probe without its test for a free variable absent from the Context.
meta_solve_simple_any(cell, context) ==
    LET latex == StrippedLatex(cell)
        parsed == from_latex(latex)
    IN MetaFunctionResult(100, "Simple Solver",
           /\ latex.text # ""
           /\ ~parsed.raised
           /\ IsEquality(parsed.val)
           /\ FreeSymbols(parsed.val) # {},
           <<Dropdown("Solve for",
                 SortedNames(FreeSymbols(parsed.val) \ ContextVarNames(context)))>>)

\* The probe offering every free variable, bound in the Context or not.
meta_solve_simple_all_free(cell, context) ==
    LET latex == StrippedLatex(cell)
        parsed == from_latex(latex)
        applicable ==
            /\ latex.text # ""
            /\ ~parsed.raised
            /\ IsEquality(parsed.val)
            /\ FreeSymbols(parsed.val) \ ContextVarNames(context) # {}
    IN MetaFunctionResult(100, "Simple Solver", applicable,
           IF applicable
           THEN <<Dropdown("Solve for", SortedNames(FreeSymbols(parsed.val)))>>
           ELSE <<>>)

meta_solve_simple(cell, context) ==
    LET latex == StrippedLatex(cell)
        parsed == from_latex(latex)
        unsolved_variables ==
            SortedNames(FreeSymbols(parsed.val) \ ContextVarNames(context))
    IN IF latex.text = ""
       THEN MetaFunctionResult(100, "Simple Solver", FALSE, <<>>)
       ELSE IF parsed.raised
       THEN MetaFunctionResult(100, "Simple Solver", FALSE, <<>>)
       ELSE IF ~IsEquality(parsed.val)
       THEN MetaFunctionResult(100, "Simple Solver", FALSE, <<>>)
       ELSE IF FreeSymbols(parsed.val) = {}
       THEN MetaFunctionResult(100, "Simple Solver", FALSE, <<>>)
       ELSE IF unsolved_variables = <<>>
       THEN MetaFunctionResult(100, "Simple Solver", FALSE, <<>>)
       ELSE MetaFunctionResult(100, "Simple Solver", TRUE,
                               <<Dropdown("Solve for", unsolved_variables)>>)

(* ------------------------------------------------------------------ *)
(* The integral macro's probe and the scan of its first construct       *)
(* ------------------------------------------------------------------ *)

IntChars == <<"\\", "i", "n", "t">>

\* [a-zA-Z] over the characters the model's texts use.
Letters == {"a", "b", "d", "i", "n", "t", "x", "y"}

\* re.search(r'\\int\s*_', s): the leftmost match, its start and the
\* position after it (positions count from 1; found = FALSE when none).
MatchIntegral(s) ==
    LET At(i) == /\ i + 3 <= Len(s)
                 /\ \A k \in 1..4 : s[i + k - 1] = IntChars[k]
        \* the position of the '_' closing a match that starts at i, or 0
        Under(i) ==
            LET js == {j \in (i + 4)..Len(s) :
                          /\ s[j] = "_"
                          /\ \A k \in (i + 4)..(j - 1) : s[k] = " "}
            IN IF js = {} THEN 0 ELSE CHOOSE j \in js : TRUE
        starts == {i \in DOMAIN s : At(i) /\ Under(i) # 0}
        first == CHOOSE i \in starts : \A j \in starts : i <= j
    IN IF starts = {} THEN [found |-> FALSE, start |-> 0, end |-> 0]
       ELSE [found |-> TRUE, start |-> first, end |-> Under(first) + 1]

\* The scan without the nesting counter: it stops behind the first '}'.
RECURSIVE BraceScanFlat(_, _, _)
BraceScanFlat(s, pos, brace_count) ==
    IF pos <= Len(s) /\ brace_count > 0
    THEN BraceScanFlat(s, pos + 1, IF s[pos] = "}" THEN 0 ELSE brace_count)
    ELSE pos

\* The position after the brace group opened just before pos: the loop
\* "while pos < len and brace_count > 0".
RECURSIVE BraceScan(_, _, _)
BraceScan(s, pos, brace_count) ==
    IF pos <= Len(s) /\ brace_count > 0
    THEN BraceScan(s, pos + 1,
                   IF s[pos] = "{" THEN brace_count + 1
                   ELSE IF s[pos] = "}" THEN brace_count - 1
                   ELSE brace_count)
    ELSE pos

\* One bound read at pos: its text and the position after it.
ParseBound(s, pos) ==
    IF pos <= Len(s) /\ s[pos] = "{"
    THEN LET stop == BraceScan(s, pos + 1, 1)
         IN [text |-> SubSeq(s, pos + 1, stop - 2), pos |-> stop]
    ELSE [text |-> IF pos <= Len(s) THEN <<s[pos]>> ELSE <<>>, pos |-> pos + 1]

\* re.search(r'd([a-zA-Z])', s[pos:]): the leftmost 'd' followed by a letter
\* at or after pos, 0 when there is none.
MatchDifferential(s, pos) ==
    LET ds == {j \in pos..(Len(s) - 1) : s[j] = "d" /\ s[j + 1] \in Letters}
    IN IF ds = {} THEN 0 ELSE CHOOSE j \in ds : \A k \in ds : j <= k

\* How far the scan of the first construct of s gets: "none" (no marker),
\* "no_upper", "no_differential" or "complete".
FirstConstruct(s) ==
    LET m == MatchIntegral(s)
        lower == ParseBound(s, m.end)
        upper == ParseBound(s, lower.pos + 1)
    IN IF ~m.found THEN "none"
       ELSE IF ~(lower.pos <= Len(s) /\ s[lower.pos] = "^") THEN "no_upper"
       ELSE IF MatchDifferential(s, upper.pos) = 0 THEN "no_differential"
       ELSE "complete"

\* The probe has no try/except; on a string it cannot raise.
meta_evaluate_integrals(latex) ==
    MetaFunctionResult(3, "Evaluate Integrals", MatchIntegral(latex).found, <<>>)

\* \int_0^2xdx
MacroComplete == IntChars \o <<"_", "0", "^", "2", "x", "d", "x">>
\* \int_0
MacroNoUpper == IntChars \o <<"_", "0">>
\* \int _{a}^{b}y
MacroNoDifferential ==
    IntChars \o <<" ", "_", "{", "a", "}", "^", "{", "b", "}", "y">>
\* \int xdx
MacroIndefinite == IntChars \o <<" ", "x", "d", "x">>
\* x+1
MacroPlain == <<"x", "+", "1">>

\* \int_{{1}}^{{{2}}}x
MacroNested ==
    IntChars \o <<"_", "{", "{", "1", "}", "}", "^",
                  "{", "{", "{", "2", "}", "}", "}", "x">>
\* \int_0^{{2}xdx
MacroUnbalanced ==
    IntChars \o <<"_", "0", "^", "{", "{", "2", "}", "x", "d", "x">>
\* \int_0+\int_0^2xdx
MacroFirstFails ==
    IntChars \o <<"_", "0", "+">> \o IntChars \o <<"_", "0", "^", "2", "x", "d", "x">>
\* \int_0^2xdx+\int_{0}^{2}2dx
MacroTwo ==
    IntChars \o <<"_", "0", "^", "2", "x", "d", "x", "+">>
        \o IntChars \o <<"_", "{", "0", "}", "^", "{", "2", "}", "2", "d", "x">>
\* \int_0^a2dx
MacroBoundName == IntChars \o <<"_", "0", "^", "a", "2", "d", "x">>
\* \int_0^{a+1}2dx
MacroBoundCompound ==
    IntChars \o <<"_", "0", "^", "{", "a", "+", "1", "}", "2", "d", "x">>
\* \int_0^2 y dx
MacroBody == IntChars \o <<"_", "0", "^", "2", " ", "y", " ", "d", "x">>
\* 1+\int _0^2dx
MacroEmptyBody ==
    <<"1", "+">> \o IntChars \o <<" ", "_", "0", "^", "2", "d", "x">>

MacroLatex ==
    {MacroComplete, MacroNoUpper, MacroNoDifferential, MacroIndefinite,
     MacroPlain, <<>>, MacroNested, MacroUnbalanced, MacroFirstFails,
     MacroTwo, MacroBoundName, MacroBoundCompound, MacroBody, MacroEmptyBody}

(* ------------------------------------------------------------------ *)
(* The integral macro's execute function                               *)
(* ------------------------------------------------------------------ *)

\* The passes of the while loop the model follows at most; the markups of
\* the model need fewer.
MaxPasses == 4

DigitChars == <<"0", "1", "2", "3", "4", "5", "6", "7", "8", "9">>

IsDigit(c) == \E i \in DOMAIN DigitChars : DigitChars[i] = c

DigitValue(c) == (CHOOSE i \in DOMAIN DigitChars : DigitChars[i] = c) - 1

\* str(n) for a natural number.
RECURSIVE Decimal(_)
Decimal(n) ==
    IF n < 10 THEN <<DigitChars[n + 1]>>
    ELSE Append(Decimal(n \div 10), DigitChars[(n % 10) + 1])

\* s.strip() over the blank the model's texts use.
RECURSIVE Strip(_)
Strip(s) ==
    IF s # <<>> /\ Head(s) = " " THEN Strip(Tail(s))
    ELSE IF s # <<>> /\ s[Len(s)] = " " THEN Strip(SubSeq(s, 1, Len(s) - 1))
    ELSE s

\* sympify(text) on the text of a bound: a digit, a name, or name+digit;
\* the empty text and the other texts of the model are no expressions.
SympifyText(t) ==
    IF Len(t) = 1 /\ IsDigit(t[1]) THEN Ok(Const(DigitValue(t[1])))
    ELSE IF Len(t) = 1 /\ t[1] \in Names THEN Ok(Lin(1, t[1]))
    ELSE IF Len(t) = 3 /\ t[1] \in Names /\ t[2] = "+" /\ IsDigit(t[3])
    THEN Ok(PAdd(Lin(1, t[1]), Const(DigitValue(t[3]))))
    ELSE Raise(Const(0))

\* sympify(_latex_to_sympy_str(text)) on the text of an integrand: a digit,
\* a name, or a digit times a name; the empty text is no expression.
IntegrandOf(t) ==
    IF Len(t) = 1 /\ IsDigit(t[1]) THEN Ok(Const(DigitValue(t[1])))
    ELSE IF Len(t) = 1 /\ t[1] \in Names THEN Ok(Lin(1, t[1]))
    ELSE IF Len(t) = 2 /\ IsDigit(t[1]) /\ t[2] \in Names
    THEN Ok(Lin(DigitValue(t[1]), t[2]))
    ELSE Raise(Const(0))

\* lower_val / upper_val, parsed: the first value of the Context variable
\* whose name is the whole text of the bound, else the text itself.
BoundValue(text, context) ==
    LET at == {i \in DOMAIN context :
                  /\ Len(text) = 1
                  /\ context[i].name = text[1]
                  /\ context[i].values # <<>>}
    IN IF at = {} THEN SympifyText(text)
       ELSE Sympify(context[CHOOSE i \in at : \A j \in at : j <= i].values[1])

\* The substitution that does not spare the variable of integration.
IntegrandSubsAll(p, var, context) ==
    LET keep == {i \in DOMAIN context :
                    /\ context[i].values # <<>>
                    /\ ~Sympify(context[i].values[1]).raised}
        F[i \in 0..Len(context)] ==
            IF i = 0 THEN <<>>
            ELSE IF i \in keep THEN Append(F[i - 1], i) ELSE F[i - 1]
        idx == F[Len(context)]
    IN PSubs(p, [j \in DOMAIN idx |-> context[idx[j]].name],
             [j \in DOMAIN idx |-> Sympify(context[idx[j]].values[1]).val])

\* integrand.subs(subs_dict): every Context variable other than the
\* variable of integration that has a value which parses, by its first
\* value.
IntegrandSubs(p, var, context) ==
    LET keep == {i \in DOMAIN context :
                    /\ context[i].name # var
                    /\ context[i].values # <<>>
                    /\ ~Sympify(context[i].values[1]).raised}
        F[i \in 0..Len(context)] ==
            IF i = 0 THEN <<>>
            ELSE IF i \in keep THEN Append(F[i - 1], i) ELSE F[i - 1]
        idx == F[Len(context)]
    IN PSubs(p, [j \in DOMAIN idx |-> context[idx[j]].name],
             [j \in DOMAIN idx |-> Sympify(context[idx[j]].values[1]).val])

\* integrate(p, (var, l, u)) for p = rest + cv * var: rest * (u - l) +
\* cv * (u^2 - l^2) / 2; known = FALSE where the result leaves the
\* polynomials of the model.
EngineIntegrate(p, var, l, u) ==
    LET cv    == IF var \in Names THEN p.co[var] ELSE 0
        rest  == IF var \in Names
                 THEN Poly(p.k, [p.co EXCEPT ![var] = 0], p.sq) ELSE p
    IN The({ IF \/ p.sq # ZeroCo
                \/ ~(IsConst(rest) \/ IsConst(width))
                \/ (cv # 0 /\ (u2.raised \/ l2.raised))
             THEN [known |-> FALSE, val |-> Const(0)]
             ELSE The({ IF ~PDivides(2, twice)
                        THEN [known |-> FALSE, val |-> Const(0)]
                        ELSE [known |-> TRUE,
                              val |-> PAdd(IF IsConst(rest)
                                           THEN PScale(rest.k, width)
                                           ELSE PScale(width.k, rest),
                                           PExactDiv(twice, 2))]
                        : twice \in {IF cv = 0 THEN Const(0)
                                     ELSE PScale(cv, PSub(u2.val, l2.val))} })
             : width \in {PSub(u, l)}, u2 \in {PSquare(u)}, l2 \in {PSquare(l)} })

\* str(Float(n)) for an integer n # 0: fifteen significant digits.
FloatStr(n) ==
    LET ds == Decimal(Abs(n))
    IN (IF n < 0 THEN <<"-">> ELSE <<>>) \o ds \o <<".">>
           \o [i \in 1..(15 - Len(ds)) |-> "0"]

\* A Float inside a sum or product is printed without trailing zeros.
ShortFloat(n) == Decimal(n) \o <<".", "0">>

\* str(N(result)): a number, or c*n + k in one symbol n; known = FALSE for
\* the other results.
Render(p) ==
    LET ns == PFree(p)
        n  == CHOOSE m \in ns : TRUE
        c  == p.co[n]
        term == IF c = 1 THEN <<n>>
                ELSE IF c = -1 THEN <<"-", n>>
                ELSE (IF c < 0 THEN <<"-">> ELSE <<>>)
                         \o ShortFloat(Abs(c)) \o <<"*", n>>
    IN IF ns = {}
       THEN [known |-> TRUE,
             text |-> IF p.k = 0 THEN <<"0">> ELSE FloatStr(p.k)]
       ELSE IF Cardinality(ns) > 1 \/ p.sq # ZeroCo
       THEN [known |-> FALSE, text |-> <<>>]
       ELSE [known |-> TRUE,
             text |-> term \o (IF p.k = 0 THEN <<>>
                               ELSE IF p.k > 0
                               THEN <<" ", "+", " ">> \o ShortFloat(p.k)
                               ELSE <<" ", "-", " ">> \o ShortFloat(-p.k))]

\* The skip: the matched marker is replaced by a placeholder, and the
\* placeholder by '\int_'.  (The model's markups hold no placeholder.)
SkipIntegral(s, m) ==
    SubSeq(s, 1, m.start - 1) \o IntChars \o <<"_">> \o SubSeq(s, m.end, Len(s))

\* The splice that leaves the last character of the span in place.
SpliceShort(s, start, stop, text) ==
    SubSeq(s, 1, start - 1) \o text \o SubSeq(s, stop - 1, Len(s))

\* s[:start_pos] + text + s[integral_end:], stop being the position behind
\* the span.
Splice(s, start, stop, text) ==
    SubSeq(s, 1, start - 1) \o text \o SubSeq(s, stop, Len(s))

\* What one pass of the loop saw and did.
Pass(outcome, before, after, m, lower, upper) ==
    [outcome |-> outcome, before |-> before, after |-> after,
     start |-> m.start, match_end |-> m.end, lower |-> lower, upper |-> upper,
     dpos |-> 0, var |-> "", integrand |-> <<>>,
     lower_val |-> Const(0), upper_val |-> Const(0), result_str |-> <<>>]

NoBound == [text |-> <<>>, pos |-> 0]

\* The try block of a pass whose construct is complete: "failed" when an
\* exception is caught, "replaced" when the span is rewritten, "outside"
\* when the engine's answer is not modelled.
Evaluate(s, context, m, lower, upper, dpos) ==
    LET var == s[dpos + 1]
        integrand_latex == Strip(SubSeq(s, upper.pos, dpos - 1))
        base == [Pass("failed", s, SkipIntegral(s, m), m, lower, upper)
                    EXCEPT !.dpos = dpos, !.var = var,
                           !.integrand = integrand_latex]
    IN The({ IF lo.raised \/ up.raised \/ integrand.raised THEN base
             ELSE The({ IF sub.raised THEN base
                        ELSE The({ IF ~result.known \/ ~Render(result.val).known
                                   THEN [base EXCEPT !.outcome = "outside"]
                                   ELSE [base EXCEPT
                                           !.outcome = "replaced",
                                           !.lower_val = lo.val,
                                           !.upper_val = up.val,
                                           !.result_str = Render(result.val).text,
                                           !.after =
                                               Splice(s, m.start, dpos + 2,
                                                      Render(result.val).text)]
                                   : result \in {EngineIntegrate(sub.val, var,
                                                     lo.val, up.val)} })
                        : sub \in {IntegrandSubs(integrand.val, var, context)} })
             : lo \in {BoundValue(lower.text, context)},
               up \in {BoundValue(upper.text, context)},
               integrand \in {IntegrandOf(integrand_latex)} })

\* One pass of the while loop on the markup s.
Iteration(s, context) ==
    The({ IF ~m.found THEN Pass("none", s, s, m, NoBound, NoBound)
          ELSE The({ IF ~(lower.pos <= Len(s) /\ s[lower.pos] = "^")
                     THEN Pass("no_upper", s, SkipIntegral(s, m), m, lower, NoBound)
                     ELSE The({ IF MatchDifferential(s, upper.pos) = 0
                                THEN Pass("no_differential", s,
                                          SkipIntegral(s, m), m, lower, upper)
                                ELSE Evaluate(s, context, m, lower, upper,
                                              MatchDifferential(s, upper.pos))
                                : upper \in {ParseBound(s, lower.pos + 1)} })
                     : lower \in {ParseBound(s, m.end)} })
          : m \in {MatchIntegral(s)} })

\* The passes of the loop from the markup s on, in order: the loop goes on
\* after a replacement and ends with every other pass.
RECURSIVE Passes(_, _, _)
Passes(s, context, fuel) ==
    The({ IF it.outcome = "replaced" /\ fuel > 1
          THEN <<it>> \o Passes(it.after, context, fuel - 1)
          ELSE <<it>>
          : it \in {Iteration(s, context)} })

\* evaluate_integrals: the passes and the markup returned.
evaluate_integrals(latex, context) ==
    The({ [trace |-> trace, modified_latex |-> trace[Len(trace)].after]
          : trace \in {Passes(latex, context, MaxPasses)} })

NoRun == [trace |-> <<>>, modified_latex |-> <<>>]

(* ------------------------------------------------------------------ *)
(* Dispatcher                                                          *)
(* ------------------------------------------------------------------ *)

\* The probes of the four cell handlers, in registration order.
Probes(cell, context) ==
    <<meta_check_equal(cell, context), meta_simple_simplify(cell, context),
      meta_solve_ode(cell, context), meta_solve_simple(cell, context)>>

\* The position of the applicable probe of smallest index, ties to the one
\* registered first; 0 when no probe is applicable.
Select(probes) ==
    LET app == {i \in DOMAIN probes : probes[i].use_result}
    IN IF app = {} THEN 0
       ELSE CHOOSE i \in app :
              \A j \in app : \/ probes[i].index < probes[j].index
                             \/ probes[i].index = probes[j].index /\ i <= j

(* ------------------------------------------------------------------ *)
(* Substitution over the Cartesian product                             *)
(* ------------------------------------------------------------------ *)

\* itertools.product(*lists): the tuples in product order, the last list
\* varying fastest; one empty tuple for no lists.
RECURSIVE Product(_)
Product(lists) ==
    IF lists = <<>> THEN << <<>> >>
    ELSE LET rest == Product(Tail(lists))
             head == Head(lists)
             n    == Len(rest)
         IN [i \in 1..(Len(head) * n) |->
                <<head[((i - 1) \div n) + 1]>> \o rest[((i - 1) % n) + 1]]

\* [sympify(v) for v in value_combo]
SympifyAll(combo) ==
    [raised |-> \E i \in DOMAIN combo : Sympify(combo[i]).raised,
     val    |-> [i \in DOMAIN combo |-> Sympify(combo[i]).val]]

\* expr.subs(dict(zip(var_symbols, [sympify(v) for v in value_combo])))
SubsCombo(expr, var_symbols, combo) ==
    The({ IF sv.raised THEN Raise(expr) ELSE ExprSubs(expr, var_symbols, sv.val)
          : sv \in {SympifyAll(combo)} })

RECURSIVE Flatten(_)
Flatten(ss) == IF ss = <<>> THEN <<>> ELSE Head(ss) \o Flatten(Tail(ss))

\* A loop over steps, each [raised, called, out]: the loop stops at the first
\* step that raises.  ran: the steps completed; called: the steps in which
\* the engine operation was invoked.
RunLoop(steps) ==
    LET bad  == {i \in DOMAIN steps : steps[i].raised}
        stop == IF bad = {} THEN Len(steps) + 1
                ELSE CHOOSE i \in bad : \A j \in bad : i <= j
    IN [raised |-> bad # {},
        ran    |-> 1..(stop - 1),
        called |-> {i \in DOMAIN steps : i <= stop /\ steps[i].called}]

\* The elements of s at the positions in idx, in order.
Pick(s, idx) ==
    LET F[i \in 0..Len(s)] ==
            IF i = 0 THEN <<>>
            ELSE IF i \in idx THEN Append(F[i - 1], s[i]) ELSE F[i - 1]
    IN F[Len(s)]

\* list(dict.fromkeys(s)): first occurrences, in order.
Dedupe(s) == Pick(s, {i \in DOMAIN s : \A j \in 1..(i - 1) : s[j] # s[i]})

\* to_latex(e)
to_latex(e) ==
    CASE e.kind = "expr" -> Line("Expr", "", Str(e.lhs))
      [] e.kind = "eq"   -> Line("Eq", "", Str(e.lhs) \o Str(e.rhs))
      [] e.kind = "ode"  -> Line("Ode", e.fn, Str(e.rhs))

\* CellFunctionResult(visible_solutions, new_context), with what the model
\* observes of the call: caller is the caller's Context after the call, var
\* the variable solved for, syms the symbols substituted, calls the value
\* tuples the engine operation was invoked on, in order.
CellFunctionResult(visible_solutions, new_context, caller, var, syms, calls) ==
    [visible_solutions |-> visible_solutions, new_context |-> new_context,
     caller |-> caller, var |-> var, syms |-> syms, calls |-> calls]

(* ------------------------------------------------------------------ *)
(* simple_simplify                                                     *)
(* ------------------------------------------------------------------ *)

\* The handler returning an empty Context with its error line.
simple_simplify_drops(cell, context) ==
    LET latex  == StrippedLatex(cell)
        parsed == from_latex(latex)
        expr   == parsed.val
        Sub(cv) == cv.name \in FreeSymbols(expr) /\ cv.values # <<>>
        context_vars_with_values == SelectSeq(context, Sub)
        var_symbols == [i \in DOMAIN context_vars_with_values |->
                           context_vars_with_values[i].name]
        value_lists == [i \in DOMAIN context_vars_with_values |->
                           context_vars_with_values[i].values]
        combos == Product(value_lists)
        Step(combo) ==
            The({ IF se.raised
                  THEN [raised |-> TRUE, called |-> FALSE, out |-> <<>>]
                  ELSE [raised |-> FALSE, called |-> TRUE,
                        out |-> <<to_latex(se.val)>>]
                  : se \in {SubsCombo(expr, var_symbols, combo)} })
        error == CellFunctionResult(<<Line("ErrorSimplifying", "", <<>>)>>,
                                    <<>>, context, "", <<>>, <<>>)
    IN IF parsed.raised THEN error
       ELSE IF context_vars_with_values # <<>>
       THEN The({ IF RunLoop(steps).raised
                  THEN [error EXCEPT !.syms = var_symbols,
                                     !.calls = Pick(combos, RunLoop(steps).called)]
                  ELSE CellFunctionResult(
                           Dedupe(Flatten([i \in DOMAIN steps |-> steps[i].out])),
                           context, context, "", var_symbols, combos)
                  : steps \in {[i \in DOMAIN combos |-> Step(combos[i])]} })
       ELSE CellFunctionResult(<<to_latex(expr)>>, context, context, "",
                               <<>>, << <<>> >>)

simple_simplify(cell, context) ==
    LET latex  == StrippedLatex(cell)
        parsed == from_latex(latex)
        expr   == parsed.val
        Sub(cv) == cv.name \in FreeSymbols(expr) /\ cv.values # <<>>
        context_vars_with_values == SelectSeq(context, Sub)
        var_symbols == [i \in DOMAIN context_vars_with_values |->
                           context_vars_with_values[i].name]
        value_lists == [i \in DOMAIN context_vars_with_values |->
                           context_vars_with_values[i].values]
        combos == Product(value_lists)
        Step(combo) ==
            The({ IF se.raised
                  THEN [raised |-> TRUE, called |-> FALSE, out |-> <<>>]
                  ELSE [raised |-> FALSE, called |-> TRUE,
                        out |-> <<to_latex(se.val)>>]
                  : se \in {SubsCombo(expr, var_symbols, combo)} })
        error == CellFunctionResult(<<Line("ErrorSimplifying", "", <<>>)>>,
                                    context, context, "", <<>>, <<>>)
    IN IF parsed.raised THEN error
       ELSE IF context_vars_with_values # <<>>
       THEN The({ IF RunLoop(steps).raised
                  THEN [error EXCEPT !.syms = var_symbols,
                                     !.calls = Pick(combos, RunLoop(steps).called)]
                  ELSE CellFunctionResult(
                           Dedupe(Flatten([i \in DOMAIN steps |-> steps[i].out])),
                           context, context, "", var_symbols, combos)
                  : steps \in {[i \in DOMAIN combos |-> Step(combos[i])]} })
       ELSE CellFunctionResult(<<to_latex(expr)>>, context, context, "",
                               <<>>, << <<>> >>)

(* ------------------------------------------------------------------ *)
(* solve_ode                                                           *)
(* ------------------------------------------------------------------ *)

solve_ode(cell, context) ==
    LET latex  == StrippedLatex(cell)
        parsed == from_latex(latex)
        expr   == parsed.val
        \* equation = expr.subs(replacements): the symbol fn has become
        \* fn(iv), whose only free symbol is iv
        equation_free == (FreeSymbols(expr) \ {expr.fn}) \cup {expr.iv}
        Sub(cv) == cv.name \in equation_free
        context_vars_with_values == SelectSeq(context, Sub)
        var_symbols == [i \in DOMAIN context_vars_with_values |->
                           context_vars_with_values[i].name]
        value_lists == [i \in DOMAIN context_vars_with_values |->
                           context_vars_with_values[i].values]
        combos == Product(value_lists)
        Solved(eq) ==
            The({ IF solutions.raised THEN <<Line("CouldNotSolveODE", "", <<>>)>>
                  ELSE [i \in DOMAIN solutions.val |->
                           Line("OdeSolution", eq.fn, Str(solutions.val[i]))]
                  : solutions \in {EngineDsolve(eq)} })
        Step(combo) ==
            The({ IF se.raised
                  THEN [raised |-> TRUE, called |-> FALSE, out |-> <<>>]
                  ELSE [raised |-> FALSE, called |-> TRUE, out |-> Solved(se.val)]
                  : se \in {SubsCombo(expr, var_symbols, combo)} })
        Message(kind) == CellFunctionResult(<<Line(kind, "", <<>>)>>,
                                            context, context, "", <<>>, <<>>)
    IN IF parsed.raised THEN Message("ErrorSolvingDifferentialEquation")
       ELSE IF ~IsEquality(expr) THEN Message("UnableToSolveNotAnEquation")
       ELSE IF ~HasDerivative(expr) THEN Message("NoDerivativesFound")
       ELSE IF context_vars_with_values # <<>>
       THEN The({ IF RunLoop(steps).raised
                  THEN [Message("ErrorSolvingDifferentialEquation")
                           EXCEPT !.syms = var_symbols,
                                  !.calls = Pick(combos, RunLoop(steps).called)]
                  ELSE CellFunctionResult(
                           Flatten([i \in DOMAIN steps |-> steps[i].out]),
                           context, context, "", var_symbols, combos)
                  : steps \in {[i \in DOMAIN combos |-> Step(combos[i])]} })
       ELSE CellFunctionResult(Solved(expr), context, context, "",
                               <<>>, << <<>> >>)

(* ------------------------------------------------------------------ *)
(* check_equal                                                         *)
(* ------------------------------------------------------------------ *)

\* The characters of str(i) for an integer i, '-' as -1 and a digit as itself.
RECURSIVE Digits(_)
Digits(i) ==
    IF i < 0 THEN <<-1>> \o Digits(-i)
    ELSE IF i < 10 THEN <<i>>
    ELSE Append(Digits(i \div 10), i % 10)

\* a < b for two sequences of integers, in dictionary order.
SeqLess(a, b) ==
    \E i \in 1..(Len(a) + 1) :
        /\ i <= Len(b)
        /\ \A j \in 1..(i - 1) : a[j] = b[j]
        /\ (i = Len(a) + 1 \/ a[i] < b[i])

\* str(p) < str(q) as Python compares strings: coefficient by coefficient,
\* each as its decimal text.
StrLess(p, q) ==
    LET s == Str(p)
        t == Str(q)
    IN \E i \in DOMAIN s :
          /\ \A j \in 1..(i - 1) : s[j] = t[j]
          /\ SeqLess(Digits(s[i]), Digits(t[i]))

\* sorted(ps, key=str): stable.
SortByStr(ps) ==
    LET Before(i, j) == StrLess(ps[i], ps[j]) \/ (~StrLess(ps[j], ps[i]) /\ i < j)
        Rank(i) == Cardinality({j \in DOMAIN ps : j # i /\ Before(j, i)}) + 1
    IN [r \in DOMAIN ps |-> ps[CHOOSE i \in DOMAIN ps : Rank(i) = r]]

check_equal(cell, context) ==
    LET latex  == StrippedLatex(cell)
        parsed == from_latex(latex)
        expr   == parsed.val
        Sub(cv) == cv.name \in FreeSymbols(expr) /\ cv.values # <<>>
        context_vars_with_values == SelectSeq(context, Sub)
        var_symbols == [i \in DOMAIN context_vars_with_values |->
                           context_vars_with_values[i].name]
        value_lists == [i \in DOMAIN context_vars_with_values |->
                           context_vars_with_values[i].values]
        combos == Product(value_lists)
        Step(combo) ==
            The({ IF se.raised
                  THEN [raised |-> TRUE, called |-> FALSE, out |-> <<>>]
                  ELSE [raised |-> FALSE, called |-> TRUE, out |-> <<se.val>>]
                  : se \in {SubsCombo(expr, var_symbols, combo)} })
        \* the loop "for i in range(len(...))" over the two sorted lists
        AllEqual(sides) ==
            \A left_hand_sides_sorted \in
                   {SortByStr([i \in DOMAIN sides |-> sides[i].lhs])},
               right_hand_sides_sorted \in
                   {SortByStr([i \in DOMAIN sides |-> sides[i].rhs])} :
                \A i \in DOMAIN sides :
                    EngineEqual(left_hand_sides_sorted[i],
                                right_hand_sides_sorted[i])
        Message(kind) == CellFunctionResult(<<Line(kind, "", <<>>)>>,
                                            context, context, "", <<>>, <<>>)
        Truth(b) == IF b THEN "True" ELSE "False"
    IN IF parsed.raised THEN Message("ErrorCheckingEquality")
       ELSE IF ~IsEquality(expr) THEN Message("NotAnEquation")
       ELSE IF context_vars_with_values = <<>>
       THEN [Message(Truth(EngineEqual(expr.lhs, expr.rhs)))
                EXCEPT !.calls = << <<>> >>]
       ELSE The({ IF RunLoop(steps).raised
                  THEN [Message("ErrorCheckingEquality")
                           EXCEPT !.syms = var_symbols,
                                  !.calls = Pick(combos, RunLoop(steps).called)]
                  ELSE The({ [Message(Truth(AllEqual(sides)))
                                EXCEPT !.syms = var_symbols, !.calls = combos]
                             : sides \in {Flatten([i \in DOMAIN steps |->
                                                     steps[i].out])} })
                  : steps \in {[i \in DOMAIN combos |-> Step(combos[i])]} })

(* ------------------------------------------------------------------ *)
(* solve_simple                                                        *)
(* ------------------------------------------------------------------ *)

\* The fallback taking the last candidate of the sorted list, not the first.
FallbackVariableLast(free, context) ==
    LET candidates == SortedNames(free \ ContextVarNames(context))
    IN IF candidates = <<>> THEN "" ELSE candidates[Len(candidates)]

\* The fallback when no variable is selected: the first free symbol, in
\* sorted order, that is no Context variable; "" when there is none.
FallbackVariable(free, context) ==
    LET candidates == SortedNames(free \ ContextVarNames(context))
    IN IF candidates = <<>> THEN "" ELSE candidates[1]

\* The variable lists of a call as objects: heap[1] is the list of the
\* caller's Context; new_variables is the position of the list the new
\* Context is built from.  The update takes the caller's list and edits it
\* in place.
NewVariablesInPlace(context, name, solution_strings) ==
    LET Keep(v) == v.name # name
    IN [heap |-> <<Append(SelectSeq(context, Keep),
                          Variable(name, solution_strings))>>,
        new_variables |-> 1]

\* The old entry of the same name is not removed.
NewVariablesKeepOld(context, name, solution_strings) ==
    [heap |-> <<context, Append(context, Variable(name, solution_strings))>>,
     new_variables |-> 2]

\* new_variables = list(context.variables); the list without the entries
\* named name is a new list, to which the new variable is appended.
NewVariables(context, name, solution_strings) ==
    LET Keep(v) == v.name # name
        copied   == <<context, context>>
        filtered == Append(copied, SelectSeq(copied[2], Keep))
        appended == [filtered EXCEPT ![3] =
                        Append(@, Variable(name, solution_strings))]
    IN [heap |-> appended, new_variables |-> 3]

\* The orders in which a set can be iterated.
SetOrders(S) ==
    {o \in [1..Cardinality(S) -> S] : \A i, j \in DOMAIN o : o[i] = o[j] => i = j}

\* solve_simple up to the collection of all_solutions.  early: the call
\* returned before (result is what it returned).
SolveSimpleScan(cell, context, sels) ==
    LET latex    == StrippedLatex(cell)
        parsed   == from_latex(latex)
        equation == parsed.val
        selected_var_name == get_dropdown_selection(sels, "Solve for")
        var == IF selected_var_name = ""
               THEN FallbackVariable(FreeSymbols(equation), context)
               ELSE selected_var_name
        Sub(cv) == cv.name # var /\ cv.name \in FreeSymbols(equation)
        context_vars_with_values == SelectSeq(context, Sub)
        var_symbols == [i \in DOMAIN context_vars_with_values |->
                           context_vars_with_values[i].name]
        value_lists == [i \in DOMAIN context_vars_with_values |->
                           context_vars_with_values[i].values]
        combos == Product(value_lists)
        Step(combo) ==
            The({ IF se.raised
                  THEN [raised |-> TRUE, called |-> FALSE, out |-> <<>>]
                  ELSE The({ [raised |-> solutions.raised, called |-> TRUE,
                              out |-> solutions.val]
                             : solutions \in {EngineSolve(se.val, var)} })
                  : se \in {SubsCombo(equation, var_symbols, combo)} })
        Return(kind, v, syms, calls) ==
            [early |-> TRUE,
             result |-> CellFunctionResult(<<Line(kind, v, <<>>)>>, context,
                                           context, "", syms, calls),
             var |-> "", syms |-> syms, calls |-> calls, all_solutions |-> {}]
        Collected(syms, calls, sols) ==
            [early |-> FALSE,
             result |-> CellFunctionResult(<<>>, context, context, var, syms, calls),
             var |-> var, syms |-> syms, calls |-> calls,
             all_solutions |-> {sols[i] : i \in DOMAIN sols}]
    IN IF parsed.raised THEN Return("ErrorSolvingEquation", "", <<>>, <<>>)
       ELSE IF equation.kind = "expr"
       THEN Return("UnableToSolveNotAnEquation", "", <<>>, <<>>)
       ELSE IF selected_var_name = "" /\ FreeSymbols(equation) = {}
       THEN Return("NoVariablesToSolveFor", "", <<>>, <<>>)
       ELSE IF selected_var_name = "" /\ var = ""
       THEN Return("AllVariablesAlreadyDefined", "", <<>>, <<>>)
       ELSE IF selected_var_name # "" /\ var \notin FreeSymbols(equation)
       THEN Return("VariableNotFound", selected_var_name, <<>>, <<>>)
       ELSE IF context_vars_with_values # <<>>
       THEN The({ IF RunLoop(steps).raised
                  THEN [Return("ErrorSolvingEquation", "", var_symbols,
                               Pick(combos, RunLoop(steps).called))
                           EXCEPT !.var = var, !.result.var = var]
                  ELSE Collected(var_symbols, combos,
                                 Flatten([i \in DOMAIN steps |-> steps[i].out]))
                  : steps \in {[i \in DOMAIN combos |-> Step(combos[i])]} })
       ELSE The({ IF solutions.raised
                  THEN [Return("ErrorSolvingEquation", "", <<>>, << <<>> >>)
                           EXCEPT !.var = var, !.result.var = var]
                  ELSE Collected(<<>>, << <<>> >>, solutions.val)
                  : solutions \in {EngineSolve(equation, var)} })

\* solve_simple, with order the order in which the set all_solutions is
\* iterated.
solve_simple(cell, context, sels, order) ==
    The({ LET var == scan.var
              solution_strings == [i \in DOMAIN order |-> Str(order[i])]
              visible == [i \in DOMAIN order |->
                             Line("Solution", var, Str(order[i]))]
          IN IF scan.early THEN scan.result
             ELSE IF scan.all_solutions # {}
             THEN The({ CellFunctionResult(
                            visible, updated.heap[updated.new_variables],
                            updated.heap[1], var, scan.syms, scan.calls)
                        : updated \in
                            {NewVariables(context, var, solution_strings)} })
             ELSE CellFunctionResult(<<Line("NoSolutionFound", var, <<>>)>>,
                                     context, context, var, scan.syms, scan.calls)
          : scan \in {SolveSimpleScan(cell, context, sels)} })

(* ------------------------------------------------------------------ *)
(* The host: a session of cell evaluations                             *)
(* ------------------------------------------------------------------ *)

N(i) == Str(Const(i))

\* Contexts the host may hold when a session is observed: names are unique.
HostContexts ==
    { <<>>,
      <<Variable("x", <<N(2)>>)>>,
      <<Variable("a", <<N(-2), N(2)>>)>>,
      <<Variable("x", <<>>)>>,
      <<Variable("x", <<BadStr>>)>>,
      <<Variable("x", <<N(2)>>), Variable("y", <<N(4)>>)>>,
      <<Variable("x", <<N(1), N(2)>>), Variable("y", <<N(2), N(1)>>)>>,
      <<Variable("x", <<N(1), N(1), N(2)>>), Variable("y", <<N(1), N(2)>>)>>,
      <<Variable("x", <<N(1), N(2)>>), Variable("a", <<N(1), N(2), N(3)>>)>> }

\* The UI selections the host may pass.
Selections ==
    { <<>>, <<Selection("Other", "x")>>,
      <<Selection("Other", "x"), Selection("Solve for", "y")>> }
    \cup { <<Selection("Solve for", n)>> : n \in Names }

NoResult == CellFunctionResult(<<>>, <<>>, <<>>, "", <<>>, <<>>)

NoProbe == MetaFunctionResult(0, "", FALSE, <<>>)

\* What is recorded of one step: the operation, its inputs and its outputs.
Call(op, cell, sels, context, probes, selected, result, latex, macro) ==
    [op |-> op, cell |-> cell, sels |-> sels, context |-> context,
     probes |-> probes, selected |-> selected, result |-> result,
     latex |-> latex, macro |-> macro, run |-> NoRun]

\* No step is being observed: the host is between two cells.
Idle == Call("none", CellMissing, <<>>, <<>>, <<>>, 0, NoResult, <<>>, NoProbe)

Init ==
    /\ ctx \in HostContexts
    /\ cells = 0
    /\ last = Idle

\* The handler at position i of the registry, executed.
Execute(i, cell, context, sels, order) ==
    CASE i = 1 -> check_equal(cell, context)
      [] i = 2 -> simple_simplify(cell, context)
      [] i = 3 -> solve_ode(cell, context)
      [] i = 4 -> solve_simple(cell, context, sels, order)

\* The orders in which solve_simple may iterate its solution set.
Orders(cell, context, sels) ==
    SetOrders(SolveSimpleScan(cell, context, sels).all_solutions)

\* The host probes every handler, executes the selected one and keeps the
\* Context it returns; with no applicable handler the outputs are empty and
\* the Context stays.
Dispatch(cell, sels) ==
    LET probes   == Probes(cell, ctx)
        selected == Select(probes)
    IN /\ cells < MaxCells
       /\ last = Idle
       /\ \E order \in (IF selected = 4 THEN Orders(cell, ctx, sels) ELSE {<<>>}) :
            LET result == IF selected = 0
                          THEN CellFunctionResult(<<>>, ctx, ctx, "", <<>>, <<>>)
                          ELSE Execute(selected, cell, ctx, sels, order)
            IN /\ last' = Call("dispatch", cell, sels, ctx, probes, selected,
                               result, <<>>, NoProbe)
               /\ ctx' = result.new_context
       /\ cells' = cells + 1

ExecSolveSimple(cell, sels) ==
    /\ cells < MaxCells
    /\ last = Idle
    /\ \E order \in Orders(cell, ctx, sels) :
         LET result == solve_simple(cell, ctx, sels, order)
         IN /\ last' = Call("solve_simple", cell, sels, ctx, <<>>, 4, result,
                            <<>>, NoProbe)
            /\ ctx' = result.new_context
    /\ cells' = cells + 1

ExecSimplify(cell) ==
    LET result == simple_simplify(cell, ctx)
    IN /\ cells < MaxCells
       /\ last = Idle
       /\ last' = Call("simple_simplify", cell, <<>>, ctx, <<>>, 2, result,
                       <<>>, NoProbe)
       /\ ctx' = result.new_context
       /\ cells' = cells + 1

ExecCheckEqual(cell) ==
    LET result == check_equal(cell, ctx)
    IN /\ cells < MaxCells
       /\ last = Idle
       /\ last' = Call("check_equal", cell, <<>>, ctx, <<>>, 1, result,
                       <<>>, NoProbe)
       /\ ctx' = result.new_context
       /\ cells' = cells + 1

ExecSolveOde(cell) ==
    LET result == solve_ode(cell, ctx)
    IN /\ cells < MaxCells
       /\ last = Idle
       /\ last' = Call("solve_ode", cell, <<>>, ctx, <<>>, 3, result,
                       <<>>, NoProbe)
       /\ ctx' = result.new_context
       /\ cells' = cells + 1

\* The host probes the integral macro on a markup.
ProbeMacro(latex) ==
    /\ cells < MaxCells
    /\ last = Idle
    /\ last' = Call("probe_macro", CellMissing, <<>>, ctx, <<>>, 0, NoResult,
                    latex, meta_evaluate_integrals(latex))
    /\ cells' = cells + 1
    /\ UNCHANGED ctx

\* The host runs the macro on a markup.
ExecMacro(latex) ==
    /\ cells < MaxCells
    /\ last = Idle
    /\ last' = [Call("evaluate_integrals", CellMissing, <<>>, ctx, <<>>, 0,
                     NoResult, latex, meta_evaluate_integrals(latex))
                   EXCEPT !.run = evaluate_integrals(latex, ctx)]
    /\ cells' = cells + 1
    /\ UNCHANGED ctx

\* The host has shown the result and turns to the next cell, with the
\* Context the step returned.
NextCell ==
    /\ last # Idle
    /\ last' = Idle
    /\ UNCHANGED <<ctx, cells>>

\* The handlers are called through the dispatcher and directly.  The engine
\* fragment solves, simplifies and compares algebraic expressions, so the
\* direct calls of those handlers take the algebraic cells.
Next ==
    \/ NextCell
    \/ \E cell \in Cells, sels \in Selections : Dispatch(cell, sels)
    \/ \E cell \in AlgebraCells, sels \in Selections : ExecSolveSimple(cell, sels)
    \/ \E cell \in AlgebraCells : ExecSimplify(cell)
    \/ \E cell \in AlgebraCells : ExecCheckEqual(cell)
    \/ \E cell \in Cells : ExecSolveOde(cell)
    \/ \E latex \in MacroLatex : ProbeMacro(latex)
    \/ \E latex \in MacroLatex : ExecMacro(latex)

Spec == Init /\ [][Next]_vars

(* ------------------------------------------------------------------ *)
(* What is observed of the step recorded in last                        *)
(* ------------------------------------------------------------------ *)

HandlerNames == <<"check_equal", "simple_simplify", "solve_ode", "solve_simple">>

\* The handler whose execute function ran in the recorded step, "" if none.
Handler(call) ==
    IF call.op = "dispatch"
    THEN (IF call.selected = 0 THEN "" ELSE HandlerNames[call.selected])
    ELSE IF call.op \in {"none", "probe_macro", "evaluate_integrals"} THEN ""
    ELSE call.op

Kinds(call) ==
    {call.result.visible_solutions[i].kind :
         i \in DOMAIN call.result.visible_solutions}

\* The lines that describe a failure of the execute step.
FailureKinds ==
    {"ErrorSimplifying", "ErrorCheckingEquality", "ErrorSolvingEquation",
     "ErrorSolvingDifferentialEquation", "CouldNotSolveODE"}

\* solve_simple found solutions in the recorded step.
Solved(call) == Handler(call) = "solve_simple" /\ "Solution" \in Kinds(call)

UniqueNames(context) ==
    \A i, j \in DOMAIN context : context[i].name = context[j].name => i = j

\* The entries of a Context not named v, in order.
Others(context, v) ==
    LET Keep(e) == e.name # v
    IN SelectSeq(context, Keep)

(* ------------------------------------------------------------------ *)
(* C1                                                                  *)
(* ------------------------------------------------------------------ *)

ClaimedName == <<"Check Equality", "Simplify", "ODE Solver", "Simple Solver">>

ClaimedIndex == <<25, 50, 90, 100>>

Applicable(call) == {i \in DOMAIN call.probes : call.probes[i].use_result}

\* C1: among Check Equality (index 25), Simplify (50), ODE Solver (90) and
\* Simple Solver (100) the dispatcher selects the handler whose probe is
\* applicable with the strictly smallest index; when no probe is applicable
\* the outputs are empty and the Context is the input Context; the selection
\* is determined by the markup and the Context alone.
C1_SmallestApplicableIndex ==
    last.op = "dispatch" =>
        /\ \A i \in DOMAIN last.probes :
              /\ last.probes[i].name = ClaimedName[i]
              /\ last.probes[i].index = ClaimedIndex[i]
        /\ IF Applicable(last) = {}
           THEN /\ last.selected = 0
                /\ last.result.visible_solutions = <<>>
                /\ last.result.new_context = last.context
           ELSE /\ last.selected \in Applicable(last)
                /\ \A j \in Applicable(last) \ {last.selected} :
                      ClaimedIndex[last.selected] < ClaimedIndex[j]
        /\ last.selected = Select(Probes(last.cell, last.context))

\* Two probes are applicable and the one of smaller index was selected.
C1_Witness ==
    /\ last.op = "dispatch"
    /\ Applicable(last) = {3, 4}
    /\ last.selected = 3
    /\ Kinds(last) \subseteq {"OdeSolution", "CouldNotSolveODE"}

(* ------------------------------------------------------------------ *)
(* C2                                                                  *)
(* ------------------------------------------------------------------ *)

\* The markup of the cell is missing, empty or unparsable, of the wrong
\* shape for the handler at position i, or lacks the variable coverage that
\* handler requires.
Unfit(i, cell, context) ==
    LET e == cell.expr
    IN \/ cell.latex \in {"missing", "blank", "bad"}
       \/ i = 1 /\ (~IsEquality(e) \/ ~(FreeSymbols(e) \subseteq ContextVarNames(context)))
       \/ i = 2 /\ (IsEquality(e) \/ cell.eqsign)
       \/ i = 3 /\ (~IsEquality(e) \/ ~HasDerivative(e))
       \/ i = 4 /\ (~IsEquality(e) \/ FreeSymbols(e) \subseteq ContextVarNames(context))

\* C2: every probe (the four cell probes and meta_evaluate_integrals)
\* returns a result and never raises, and returns applicable = false when
\* the markup is missing, empty, unparsable, of the wrong shape or without
\* the required variable coverage.
C2_ProbesFoldFailures ==
    /\ last.op = "dispatch" =>
          \A i \in DOMAIN last.probes :
              /\ ~last.probes[i].raised
              /\ Unfit(i, last.cell, last.context) => ~last.probes[i].use_result
    /\ last.op = "probe_macro" =>
          /\ ~last.macro.raised
          /\ FirstConstruct(last.latex) # "complete" => ~last.macro.use_result

(* ------------------------------------------------------------------ *)
(* C3                                                                  *)
(* ------------------------------------------------------------------ *)

\* C3: when the execute step of solve_simple, solve_ode, simple_simplify or
\* check_equal fails, the result carries exactly one visible line, which
\* describes the failure, and its Context is the input Context.
C3_FailureIsOneLine ==
    (Handler(last) # "" /\ Kinds(last) \cap FailureKinds # {}) =>
        /\ Len(last.result.visible_solutions) = 1
        /\ last.result.new_context = last.context

(* ------------------------------------------------------------------ *)
(* C4                                                                  *)
(* ------------------------------------------------------------------ *)

\* C4: the names of every reachable Context are pairwise distinct; after a
\* solve_simple that finds solutions for v the new Context has exactly one
\* entry named v, its values are the solutions of that execution, and
\* every other entry is carried over, values unchanged.
C4_UniqueNamesLastWriteWins ==
    /\ UniqueNames(ctx)
    /\ Solved(last) =>
          LET v    == last.result.var
              new  == last.result.new_context
              sols == [i \in DOMAIN last.result.visible_solutions |->
                          last.result.visible_solutions[i].text]
              at   == {i \in DOMAIN new : new[i].name = v}
          IN /\ ctx = new
             /\ Cardinality(at) = 1
             /\ \A i \in at : new[i].values = sols
             /\ {sols[i] : i \in DOMAIN sols} =
                    {Str(q) : q \in SolveSimpleScan(last.cell, last.context,
                                                    last.sels).all_solutions}
             /\ Others(new, v) = Others(last.context, v)

\* solve_simple has replaced an entry of a Context that holds other entries.
C4_Witness ==
    /\ Solved(last)
    /\ last.result.var \in ContextVarNames(last.context)
    /\ Others(last.context, last.result.var) # <<>>
    /\ last.result.new_context # last.context

(* ------------------------------------------------------------------ *)
(* C5                                                                  *)
(* ------------------------------------------------------------------ *)

\* C5: after solve_simple returns, with solutions, without, or with an
\* error, the caller's Context holds the same variables, in the same order,
\* with the same values as before the call.
C5_CallerContextUntouched ==
    Handler(last) = "solve_simple" => last.result.caller = last.context

\* solve_simple returned a Context that differs from the one it was given.
C5_Witness ==
    /\ Solved(last)
    /\ last.result.new_context # last.context
    /\ last.result.caller = last.context

(* ------------------------------------------------------------------ *)
(* C6, C7                                                              *)
(* ------------------------------------------------------------------ *)

\* The execute step of the recorded call got as far as collecting the
\* variables to substitute.
ReachedSubstitution(call) ==
    /\ call.cell.latex = "text"
    /\ CASE Handler(call) = "simple_simplify" -> TRUE
         [] Handler(call) = "check_equal"     -> IsEquality(call.cell.expr)
         [] Handler(call) = "solve_ode"       -> HasDerivative(call.cell.expr)
         [] Handler(call) = "solve_simple"    -> call.result.var # ""
         [] OTHER -> FALSE

Failed(call) == Kinds(call) \cap FailureKinds # {}

\* The free symbols of the expression the handler substitutes into: for
\* solve_ode that of the equation in fn(iv), for solve_simple the unknown
\* is left out.
SubstitutionFree(call) ==
    LET e == call.cell.expr
    IN CASE Handler(call) = "solve_ode"    -> (FreeSymbols(e) \ {e.fn}) \cup {e.iv}
         [] Handler(call) = "solve_simple" -> FreeSymbols(e) \ {call.result.var}
         [] OTHER -> FreeSymbols(e)

\* The substitutable variables: those free in the expression with at least
\* one value, in Context order.
Substitutable(call) ==
    LET Sub(v) == v.name \in SubstitutionFree(call) /\ v.values # <<>>
    IN SelectSeq(call.context, Sub)

RECURSIVE Times(_)
Times(ns) == IF ns = <<>> THEN 1 ELSE Head(ns) * Times(Tail(ns))

\* C6: in simple_simplify, check_equal, solve_simple and solve_ode the
\* variables substituted are exactly the Context variables free in the
\* expression that have at least one value; the others do not change the
\* number of engine evaluations: it is the product of the numbers of values
\* of the substitutable variables.
C6_SubstitutedIffFreeWithValue ==
    ReachedSubstitution(last) =>
        /\ last.result.syms =
              [i \in DOMAIN Substitutable(last) |-> Substitutable(last)[i].name]
        /\ ~Failed(last) =>
              Len(last.result.calls) =
                  Times([i \in DOMAIN Substitutable(last) |->
                            Len(Substitutable(last)[i].values)])

\* The j-th tuple, counting from 0, of the product of lists in natural order:
\* the digits of j in the mixed radix of the lengths, last list fastest.
RECURSIVE Tuple(_, _)
Tuple(lists, j) ==
    IF lists = <<>> THEN <<>>
    ELSE LET n == Times([i \in DOMAIN Tail(lists) |-> Len(Tail(lists)[i])])
         IN <<Head(lists)[(j \div n) + 1]>> \o Tuple(Tail(lists), j % n)

NaturalProduct(lists) ==
    [j \in 1..Times([i \in DOMAIN lists |-> Len(lists[i])]) |->
        Tuple(lists, j - 1)]

\* C7: the engine operation is evaluated once per element of the Cartesian
\* product of the value lists of the substitutable variables, in natural
\* product order, n1*...*nk times; with no substitutable variable it is
\* evaluated exactly once, on the unsubstituted expression.
C7_OncePerProductElement ==
    (ReachedSubstitution(last) /\ ~Failed(last)) =>
        last.result.calls =
            NaturalProduct([i \in DOMAIN Substitutable(last) |->
                               Substitutable(last)[i].values])

\* The value lists of the variables the handler did substitute.
SubstitutedLists(call) ==
    [i \in DOMAIN call.result.syms |->
        LET at == CHOOSE j \in DOMAIN call.context :
                      call.context[j].name = call.result.syms[i]
        IN call.context[at].values]

\* Over the variables the handler substitutes, whatever it takes them to
\* be, the evaluations are the product in natural order; a failure cuts
\* the enumeration short.
ProductOrderOverSubstituted ==
    ReachedSubstitution(last) =>
        LET all == NaturalProduct(SubstitutedLists(last))
        IN /\ ~Failed(last) => last.result.calls = all
           /\ Len(last.result.calls) <= Len(all)
           /\ \A i \in DOMAIN last.result.calls : last.result.calls[i] = all[i]

(* ------------------------------------------------------------------ *)
(* C8                                                                  *)
(* ------------------------------------------------------------------ *)

\* The solutions of a solve_simple call in the order the product enumeration
\* produces them.
ProducedSolutions(call) ==
    LET e == call.cell.expr
        Sols(combo) ==
            The({ IF se.raised THEN <<>>
                  ELSE [i \in DOMAIN EngineSolve(se.val, call.result.var).val |->
                           Str(EngineSolve(se.val, call.result.var).val[i])]
                  : se \in {SubsCombo(e, call.result.syms, combo)} })
    IN Flatten([i \in DOMAIN call.result.calls |-> Sols(call.result.calls[i])])

\* C8: in the visible outputs of simple_simplify, solve_simple and solve_ode
\* no two entries have the same string form, and the entries are in the
\* order in which the product enumeration first produced them.
C8_DedupedFirstSeenOrder ==
    (Handler(last) \in {"simple_simplify", "solve_simple", "solve_ode"}
         /\ ReachedSubstitution(last) /\ ~Failed(last)) =>
        LET out == last.result.visible_solutions
        IN /\ \A i, j \in DOMAIN out : out[i] = out[j] => i = j
           /\ Solved(last) =>
                 [i \in DOMAIN out |-> out[i].text] =
                     Dedupe(ProducedSolutions(last))

(* ------------------------------------------------------------------ *)
(* C9, C10                                                             *)
(* ------------------------------------------------------------------ *)

\* The item selected for the directive titled "Solve for", "" if none.
SolveFor(call) ==
    LET items == {call.sels[i].item :
                     i \in {j \in DOMAIN call.sels :
                               call.sels[j].title = "Solve for"}}
    IN IF items = {} THEN "" ELSE CHOOSE n \in items : TRUE

\* solve_simple ran on a cell that parses to an equation.
SolvesEquation(call) ==
    /\ Handler(call) = "solve_simple"
    /\ call.cell.latex = "text"
    /\ call.cell.expr.kind = "eq"

\* The free variables of the equation that are absent from the Context.
Absent(call) == FreeSymbols(call.cell.expr) \ ContextVarNames(call.context)

\* C9: with no selection for "Solve for", solve_simple solves for the
\* lexicographically smallest free variable absent from the Context; with
\* a selection it solves for exactly the named variable if that is free in
\* the equation, and otherwise reports that the variable was not found and
\* returns the input Context.
C9_VariableSolvedFor ==
    SolvesEquation(last) =>
        LET sel == SolveFor(last)
            out == last.result.visible_solutions
        IN /\ (sel = "" /\ Absent(last) # {}) =>
                 /\ last.result.var \in Absent(last)
                 /\ \A n \in Absent(last) :
                       NameRank(last.result.var) <= NameRank(n)
           /\ (sel # "" /\ sel \in FreeSymbols(last.cell.expr)) =>
                 /\ last.result.var = sel
                 /\ \A i \in DOMAIN out : out[i].var \in {sel, ""}
           /\ (sel # "" /\ sel \notin FreeSymbols(last.cell.expr)) =>
                 /\ out = <<Line("VariableNotFound", sel, <<>>)>>
                 /\ last.result.new_context = last.context

\* No selection, two candidates absent from the Context, and a solution
\* found.
C9_Witness ==
    /\ SolvesEquation(last)
    /\ SolveFor(last) = ""
    /\ Cardinality(Absent(last)) >= 2
    /\ Solved(last)

\* C10: when every free variable of the equation is present in the Context,
\* solve_simple attempts no solve, whatever the selection: it reports 'all
\* variables already defined' and returns the input Context.
C10_AllBoundNeverSolves ==
    (SolvesEquation(last) /\ FreeSymbols(last.cell.expr) # {}
         /\ Absent(last) = {}) =>
        /\ last.result.visible_solutions =
               <<Line("AllVariablesAlreadyDefined", "", <<>>)>>
        /\ last.result.calls = <<>>
        /\ last.result.new_context = last.context

(* ------------------------------------------------------------------ *)
(* C11, C12                                                            *)
(* ------------------------------------------------------------------ *)

\* The equation is a direct variable-to-variable equality.
VarToVar(e) ==
    /\ e.kind = "eq"
    /\ \E n, m \in Names : e.lhs = Lin(1, n) /\ e.rhs = Lin(1, m)

\* check_equal ran on an equation and gave a verdict.
Verdict(call) ==
    /\ Handler(call) = "check_equal"
    /\ call.cell.latex = "text"
    /\ call.cell.expr.kind = "eq"
    /\ Kinds(call) \subseteq {"True", "False"}

\* The two sides are equal within the substitution tuple combo.
EqualWithin(call, combo) ==
    \A se \in {SubsCombo(call.cell.expr, call.result.syms, combo)} :
        ~se.raised /\ EngineEqual(se.val.lhs, se.val.rhs)

\* C11: for an equation that is no direct variable-to-variable equality
\* check_equal outputs 'True' exactly when the two sides are equal within
\* every substitution tuple of the Cartesian product; one tuple whose sides
\* differ makes the output 'False'.
C11_TrueIffEveryTupleEqual ==
    (Verdict(last) /\ ~VarToVar(last.cell.expr)) =>
        (Kinds(last) = {"True"} <=>
            \A i \in DOMAIN last.result.calls :
                EqualWithin(last, last.result.calls[i]))

\* The set of values of the Context variable named n.
ValueSet(context, n) ==
    UNION {{context[i].values[j] : j \in DOMAIN context[i].values} :
              i \in {k \in DOMAIN context : context[k].name = n}}

\* C12: for a direct variable-to-variable equality x = y with both variables
\* in the Context check_equal outputs 'True' exactly when the set of values
\* of x is the set of values of y, whatever the order of the values and the
\* number of times a value is repeated.
C12_TrueIffValueSetsEqual ==
    (Verdict(last) /\ VarToVar(last.cell.expr)
         /\ FreeSymbols(last.cell.expr) \subseteq ContextVarNames(last.context)) =>
        (Kinds(last) = {"True"} <=>
            \A n, m \in FreeSymbols(last.cell.expr) :
                ValueSet(last.context, n) = ValueSet(last.context, m))

(* ------------------------------------------------------------------ *)
(* C19, C20                                                            *)
(* ------------------------------------------------------------------ *)

\* The markup of the cell parses to an equation.
ParsesToEquation(cell) ==
    \A latex \in {StrippedLatex(cell)} :
        /\ latex.text # ""
        /\ ~from_latex(latex).raised
        /\ IsEquality(from_latex(latex).val)

\* C19: for a markup that parses to an equation exactly one of the probes
\* Check Equality and Simple Solver is applicable: Check Equality when every
\* free variable name is in the Context (an equation without free variables
\* included), Simple Solver otherwise; and the Simplify probe is never
\* applicable together with Check Equality, ODE Solver or Simple Solver.
C19_ProbesExclusive ==
    last.op = "dispatch" =>
        /\ ParsesToEquation(last.cell) =>
              /\ last.probes[1].use_result # last.probes[4].use_result
              /\ last.probes[1].use_result <=>
                     FreeSymbols(last.cell.expr)
                         \subseteq ContextVarNames(last.context)
        /\ last.probes[2].use_result => Applicable(last) = {2}

\* An equation whose free variables are all in the Context was probed, and
\* so was one with a free variable absent from it.
C19_Witness ==
    /\ last.op = "dispatch"
    /\ ParsesToEquation(last.cell)
    /\ FreeSymbols(last.cell.expr) # {}
    /\ FreeSymbols(last.cell.expr) \subseteq ContextVarNames(last.context)
    /\ Applicable(last) = {1}

\* The names of the sequence are in strictly ascending order.
Ascending(items) ==
    \A i, j \in DOMAIN items : i < j => NameRank(items[i]) < NameRank(items[j])

\* C20: whenever meta_solve_simple reports applicable it advertises exactly
\* one directive, titled 'Solve for', whose options are exactly the free
\* variables of the equation absent from the Context, non-empty and in
\* ascending name order; and solve_simple run on the same markup and Context
\* with no selection solves for the first advertised option and never
\* reports 'All variables already defined in context' or 'No variables to
\* solve for'.
C20_AdvertisedOptionsSolved ==
    /\ (last.op = "dispatch" /\ last.probes[4].use_result) =>
          /\ Len(last.probes[4].dropdowns) = 1
          /\ last.probes[4].dropdowns[1].title = "Solve for"
          /\ \A items \in {last.probes[4].dropdowns[1].items} :
                /\ items # <<>>
                /\ {items[i] : i \in DOMAIN items} = Absent(last)
                /\ Ascending(items)
    /\ (Handler(last) = "solve_simple" /\ last.sels = <<>>) =>
          \A probe \in {meta_solve_simple(last.cell, last.context)} :
              probe.use_result =>
                  /\ last.result.var = probe.dropdowns[1].items[1]
                  /\ Kinds(last) \cap {"AllVariablesAlreadyDefined",
                                       "NoVariablesToSolveFor"} = {}

\* The probe advertised an option while another free variable is bound in
\* the Context, and solve_simple, run with no selection, found solutions.
C20_Witness ==
    /\ last.op = "dispatch"
    /\ last.selected = 4
    /\ last.sels = <<>>
    /\ FreeSymbols(last.cell.expr) \cap ContextVarNames(last.context) # {}
    /\ Solved(last)

(* ------------------------------------------------------------------ *)
(* What is observed of a run of the integral macro                     *)
(* ------------------------------------------------------------------ *)

\* The macro's execute function ran in the recorded step.
MacroRan(call) == call.op = "evaluate_integrals"

\* The passes of the recorded run.
Trace(call) == call.run.trace

\* The outcomes with which a pass gives up its construct.
GiveUp == {"no_upper", "no_differential", "failed"}

\* The positions of s at which an integral marker with an underscore starts.
Markers(s) ==
    {i \in DOMAIN s :
        /\ i + 3 <= Len(s)
        /\ \A k \in 1..4 : s[i + k - 1] = IntChars[k]
        /\ \E j \in (i + 4)..Len(s) :
              s[j] = "_" /\ \A k \in (i + 4)..(j - 1) : s[k] = " "}

\* Every answer of the engine that a run needed is one the model gives.
MacroWithinFragment ==
    MacroRan(last) =>
        \A i \in DOMAIN Trace(last) : Trace(last)[i].outcome # "outside"

\* The loop ends by itself: its last pass is no replacement, every pass
\* before it is one, and each replacement removes a marker.
MacroLoopEnds ==
    MacroRan(last) =>
        /\ Trace(last) # <<>>
        /\ Trace(last)[Len(Trace(last))].outcome # "replaced"
        /\ \A i \in 1..(Len(Trace(last)) - 1) :
              /\ Trace(last)[i].outcome = "replaced"
              /\ Trace(last)[i + 1].before = Trace(last)[i].after
              /\ Cardinality(Markers(Trace(last)[i].after))
                     < Cardinality(Markers(Trace(last)[i].before))
        /\ Len(Trace(last)) <= Cardinality(Markers(last.latex)) + 1

(* ------------------------------------------------------------------ *)
(* C13                                                                 *)
(* ------------------------------------------------------------------ *)

\* The open braces less the close braces of s[a..b].
Depth(s, a, b) ==
    Cardinality({i \in a..b : s[i] = "{"})
        - Cardinality({i \in a..b : s[i] = "}"})

\* The position of the '}' at which the nesting counter of the group opened
\* at position p returns to zero, 0 if it never does.
Closing(s, p) ==
    LET js == {j \in (p + 1)..Len(s) : Depth(s, p, j) = 0}
    IN IF js = {} THEN 0 ELSE CHOOSE j \in js : \A k \in js : j <= k

\* The bound read at position p of s is brace-delimited and was extracted
\* as the text between its outermost brace pair.
OutermostPair(s, p, bound) ==
    (p <= Len(s) /\ s[p] = "{" /\ Closing(s, p) # 0) =>
        /\ bound.pos = Closing(s, p) + 1
        /\ bound.text = SubSeq(s, p + 1, Closing(s, p) - 1)
        /\ Depth(bound.text, 1, Len(bound.text)) = 0

\* C13: a brace-delimited bound is consumed with a nesting counter until the
\* counter returns to zero; at every nesting depth the extracted text has as
\* many open as close braces and is exactly the text between the outermost
\* brace pair.
C13_BoundIsOutermostBraceGroup ==
    MacroRan(last) =>
        \A i \in DOMAIN Trace(last) :
            \A it \in {Trace(last)[i]} :
                /\ it.outcome # "none" =>
                      OutermostPair(it.before, it.match_end, it.lower)
                /\ it.outcome \notin {"none", "no_upper"} =>
                      OutermostPair(it.before, it.lower.pos + 1, it.upper)

\* A lower bound nested two deep and an upper bound nested three deep were
\* extracted in one pass.
C13_Witness ==
    /\ MacroRan(last)
    /\ \E i \in DOMAIN Trace(last) :
          \A it \in {Trace(last)[i]} :
              /\ it.outcome \notin {"none", "no_upper"}
              /\ it.before[it.match_end] = "{"
              /\ it.before[it.lower.pos + 1] = "{"
              /\ Cardinality({j \in DOMAIN it.lower.text : it.lower.text[j] = "{"}) = 1
              /\ Cardinality({j \in DOMAIN it.upper.text : it.upper.text[j] = "{"}) = 2

(* ------------------------------------------------------------------ *)
(* C14, C15, C16                                                       *)
(* ------------------------------------------------------------------ *)

\* The last pass of the recorded run.
LastPass(call) == Trace(call)[Len(Trace(call))]

\* The markers of the returned markup that no pass has attempted: all but
\* the marker of the construct the last pass gave up.
Unattempted(call) ==
    IF LastPass(call).outcome \in GiveUp
    THEN Markers(call.run.modified_latex) \ {LastPass(call).start}
    ELSE Markers(call.run.modified_latex)

\* C14: evaluate_integrals terminates for every markup and Context, and its
\* loop ends because no unattempted construct remains or because the
\* iteration cap was reached.  (The loop of the code has no cap, so the run
\* must end with no unattempted construct.)
C14_EndsWithNothingUnattempted ==
    MacroRan(last) =>
        /\ LastPass(last).outcome # "replaced"
        /\ Unattempted(last) = {}

\* The first construct of the text behind the marker at position start of s
\* can be resolved under the Context.
LaterResolvable(s, start, context) ==
    Iteration(SubSeq(s, start + 4, Len(s)), context).outcome = "replaced"

\* C15: a construct that cannot be resolved is left in place and the scan
\* continues behind it: every later resolvable construct of the markup is
\* still rewritten, and the failed construct is not matched again.
C15_ScanContinuesBehindFailure ==
    MacroRan(last) =>
        /\ \A i, j \in DOMAIN Trace(last) :
              (i < j /\ Trace(last)[i].outcome \in GiveUp) =>
                  Trace(last)[j].start # Trace(last)[i].start
        /\ LastPass(last).outcome \in GiveUp =>
              ~LaterResolvable(last.run.modified_latex, LastPass(last).start,
                               last.context)

\* C16: when the scanner fails on a construct, the markup it holds
\* afterwards is character for character the markup it held before the
\* attempt, the whitespace between the integral marker and its underscore
\* included.
C16_UnresolvedLeftVerbatim ==
    MacroRan(last) =>
        \A i \in DOMAIN Trace(last) :
            Trace(last)[i].outcome \in GiveUp =>
                Trace(last)[i].after = Trace(last)[i].before

(* ------------------------------------------------------------------ *)
(* C17                                                                 *)
(* ------------------------------------------------------------------ *)

\* A differential token, 'd' and a letter, stands at position j of s.
DifferentialAt(s, j) == j + 1 <= Len(s) /\ s[j] = "d" /\ s[j + 1] \in Letters

\* The passes of the recorded run that rewrote their construct.
Replacements(call) ==
    {i \in DOMAIN Trace(call) : Trace(call)[i].outcome = "replaced"}

\* C17: on successful resolution exactly the span from the opening integral
\* marker through the differential token of the construct ('d' and its
\* variable letter) is replaced by the rendered result; the text before the
\* span and the text after it are unchanged, and the body evaluated is the
\* text between the upper bound and the differential token.
C17_ReplacesExactlyTheSpan ==
    MacroRan(last) =>
        \A i \in Replacements(last) :
            \A it \in {Trace(last)[i]} :
                /\ SubSeq(it.before, it.start, it.start + 3) = IntChars
                /\ it.upper.pos <= it.dpos
                /\ DifferentialAt(it.before, it.dpos)
                /\ \A j \in it.upper.pos..(it.dpos - 1) :
                      ~DifferentialAt(it.before, j)
                /\ it.var = it.before[it.dpos + 1]
                /\ it.integrand =
                       Strip(SubSeq(it.before, it.upper.pos, it.dpos - 1))
                /\ it.result_str # <<>>
                /\ it.after =
                       SubSeq(it.before, 1, it.start - 1)
                           \o it.result_str
                           \o SubSeq(it.before, it.dpos + 2, Len(it.before))

\* One run rewrote a construct with text behind it and then a construct
\* with text before it.
C17_Witness ==
    /\ MacroRan(last)
    /\ \E i, j \in Replacements(last) :
          /\ i < j
          /\ Trace(last)[i].dpos + 1 < Len(Trace(last)[i].before)
          /\ Trace(last)[j].start > 1

(* ------------------------------------------------------------------ *)
(* C18                                                                 *)
(* ------------------------------------------------------------------ *)

\* The Context variables that have a value.
Valued(context) ==
    {context[i].name : i \in {j \in DOMAIN context : context[j].values # <<>>}}

\* The bound text resolved in the claimed order: a numeric literal as
\* itself; else the name of a Context variable as its first value; else the
\* parsed expression with every Context variable that occurs replaced by
\* its first value.
ClaimedBound(text, context) ==
    IF Len(text) = 1 /\ IsDigit(text[1]) THEN SympifyText(text)
    ELSE IF Len(text) = 1 /\ text[1] \in Valued(context)
    THEN BoundValue(text, context)
    ELSE IF SympifyText(text).raised THEN SympifyText(text)
    ELSE IntegrandSubs(SympifyText(text).val, "", context)

\* C18: each bound is resolved as a literal, else as the first value of the
\* Context variable it names, else as a parsed sub-expression in which every
\* Context variable that occurs is substituted; a compound bound containing
\* a Context variable resolves to the expression with the variable replaced
\* by its value.
C18_BoundsResolvedInOrder ==
    MacroRan(last) =>
        \A i \in Replacements(last) :
            \A it \in {Trace(last)[i]} :
                /\ Ok(it.lower_val) = ClaimedBound(it.lower.text, last.context)
                /\ Ok(it.upper_val) = ClaimedBound(it.upper.text, last.context)

(* ------------------------------------------------------------------ *)
(* C21                                                                 *)
(* ------------------------------------------------------------------ *)

\* The handlers that never write the Context.
ReadOnlyHandlers == {"check_equal", "simple_simplify", "solve_ode"}

\* C21: check_equal, simple_simplify and solve_ode return the input Context
\* as the new Context on every path (success, wrong expression shape,
\* error); over any sequence of cell evaluations the variables of the
\* Context change only in a solve_simple execution that finds at least one
\* solution.
C21_ContextChangesOnlyBySolution ==
    /\ [](Handler(last) \in ReadOnlyHandlers =>
              last.result.new_context = last.context)
    /\ [][ctx' # ctx => Solved(last')]_vars

\* After a solve_simple execution changed the Context, a handler that does
\* not write it ran on an error path and returned the changed Context.
C21_Witness ==
    /\ cells = 2
    /\ ctx \notin HostContexts
    /\ Handler(last) \in ReadOnlyHandlers
    /\ Kinds(last) \cap FailureKinds # {}
    /\ last.result.new_context = ctx

(* ------------------------------------------------------------------ *)
(* C22                                                                 *)
(* ------------------------------------------------------------------ *)

\* The first value of the Context variable named n.
FirstValue(context, n) ==
    context[CHOOSE i \in DOMAIN context :
                context[i].name = n /\ context[i].values # <<>>].values[1]

\* The names of the integrand p that are to be replaced: those of Context
\* variables with a first value that parses, the variable of integration
\* excepted.
Replaced(p, var, context) ==
    {n \in (PFree(p) \cap Valued(context)) \ {var} :
        ~Sympify(FirstValue(context, n)).raised}

\* The markup a replacing pass writes when exactly those names are replaced
\* by their first values.
ExpectedResult(it, context) ==
    \A p \in {IntegrandOf(it.integrand).val} :
        \A names \in {SortedNames(Replaced(p, it.var, context))} :
            \A sub \in {PSubs(p, names,
                              [j \in DOMAIN names |->
                                  Sympify(FirstValue(context, names[j])).val])} :
                /\ ~sub.raised
                /\ it.result_str =
                       Render(EngineIntegrate(sub.val, it.var, it.lower_val,
                                              it.upper_val).val).text

\* The Context with the first value of every variable only.
FirstOnly(context) ==
    [i \in DOMAIN context |->
        Variable(context[i].name,
                 IF context[i].values = <<>> THEN <<>>
                 ELSE <<context[i].values[1]>>)]

\* C22: in resolving a construct the scanner substitutes into the integrand
\* only the first value of each Context variable that has values, and never
\* the variable of integration named by the differential token, even when
\* it is in the Context; the second and later values of a Context variable
\* have no effect on the rewritten markup.
C22_FirstValuesOnlyNeverTheVariable ==
    MacroRan(last) =>
        /\ \A i \in Replacements(last) :
              ExpectedResult(Trace(last)[i], last.context)
        /\ last.run.modified_latex =
               evaluate_integrals(last.latex, FirstOnly(last.context)).modified_latex

\* A construct was rewritten whose integrand names a Context variable with
\* two different values while the variable of integration is in the
\* Context with a value, too.
C22_Witness ==
    /\ MacroRan(last)
    /\ \E i \in Replacements(last) :
          \A it \in {Trace(last)[i]} :
              /\ it.var \in Valued(last.context)
              /\ \E k \in DOMAIN last.context :
                    /\ last.context[k].name \in PFree(IntegrandOf(it.integrand).val)
                    /\ last.context[k].name # it.var
                    /\ Len(last.context[k].values) >= 2
                    /\ last.context[k].values[1] # last.context[k].values[2]

\* A construct was rewritten whose integrand is its variable of integration
\* while the Context holds a value for that variable.
C22_VariableInContext ==
    /\ MacroRan(last)
    /\ \E i \in Replacements(last) :
          /\ Trace(last)[i].var \in PFree(IntegrandOf(Trace(last)[i].integrand).val)
          /\ Trace(last)[i].var \in Valued(last.context)

====
